---- MODULE Spec2Model ----
(***************************************************************************)
(* Model of Tools/generate_meshlets.py: the meshlet generator of the OMNI  *)
(* build toolchain.  generate_meshlets(vertices, indices, max_vertices,    *)
(* max_triangles) is a straight-line function: it prints one line, builds  *)
(* one meshlet from a slice of each input buffer and a constant cone, and  *)
(* returns the one-element list.                                           *)
(*                                                                         *)
(* Values.  A vertex position (one row of the N x 3 vertex array) is a     *)
(* triple of integers, the index buffer is a sequence of integers, a       *)
(* meshlet is a record with the three keys of the dictionary of line 15.   *)
(* The cone cutoff 0.5 is the rational <<1, 2>> (numerator, denominator).  *)
(***************************************************************************)
EXTENDS Integers, Sequences, FiniteSets

VARIABLES vertices, indices, max_vertices, max_triangles,
          pc, meshlets, outcome, stdout

vars == <<vertices, indices, max_vertices, max_triangles,
          pc, meshlets, outcome, stdout>>

(***************************************************************************)
(* Bounds of the input space.                                              *)
(***************************************************************************)
MaxVerts == 4        \* vertex buffers of 0..MaxVerts rows
MaxTris == 2         \* index buffers of 0..MaxTris whole triangles (+ tail)
MaxCap == 3          \* caps -1..MaxCap are tried besides the defaults

(***************************************************************************)
(* Program constants: the default arguments of line 4.                     *)
(***************************************************************************)
DefaultMaxVertices == 64
DefaultMaxTriangles == 126

\* 0.5, the fourth entry of the cone of line 18, as numerator/denominator.
ConeCutoff == <<1, 2>>

\* The cone literal of line 18: [0, 1, 0, 0.5].
Cone == <<0, 1, 0, ConeCutoff>>

(***************************************************************************)
(* The inputs that are tried.                                              *)
(***************************************************************************)
Points == {<<0, 0, 0>>, <<1, 0, 0>>, <<0, 1, 0>>}

VertexBuffers == UNION {[1..n -> Points] : n \in 0..MaxVerts}

TriangleChoices == {<<0, 1, 2>>, <<2, 1, 3>>, <<0, 0, 0>>}

\* Index entries left over after the last whole triangle (a malformed buffer
\* when not empty).
Tails == {<<>>, <<0>>, <<0, 1>>}

RECURSIVE Flatten(_)
Flatten(ts) == IF ts = <<>> THEN <<>> ELSE Head(ts) \o Flatten(Tail(ts))

IndexBuffers ==
    {Flatten(ts) \o tl : ts \in UNION {[1..n -> TriangleChoices] : n \in 0..MaxTris},
                         tl \in Tails}

VertexCaps == (-1..MaxCap) \cup {DefaultMaxVertices}
TriangleCaps == (-1..(MaxCap - 1)) \cup {DefaultMaxTriangles}

(***************************************************************************)
(* Python / numpy semantics used by the function.                          *)
(***************************************************************************)
\* A slice that forgets the stop and keeps the whole buffer.
SliceStopUnbounded(a, stop) == a

\* a[:stop] for an integer stop: a negative stop counts from the end, and
\* the bound is clamped to 0..len(a).
SliceStop(a, stop) ==
    LET n == Len(a)
        k == IF stop < 0
             THEN (IF n + stop < 0 THEN 0 ELSE n + stop)
             ELSE (IF stop > n THEN n ELSE stop)
    IN  SubSeq(a, 1, k)

\* ndarray.tolist(): a fresh list with the same entries in the same order.
tolist(a) == [i \in 1..Len(a) |-> a[i]]

\* The dictionary with the index slice cut at max_triangles entries instead
\* of max_triangles * 3.
dummy_meshlet_entries ==
    [vertices |-> tolist(SliceStop(vertices, max_vertices)),
     indices  |-> tolist(SliceStop(indices, max_triangles)),
     cone     |-> Cone]

\* The dictionary of lines 15-19.
dummy_meshlet ==
    [vertices |-> tolist(SliceStop(vertices, max_vertices)),
     indices  |-> tolist(SliceStop(indices, max_triangles * 3)),
     cone     |-> Cone]

Init ==
    /\ vertices \in VertexBuffers
    /\ indices \in IndexBuffers
    /\ max_vertices \in VertexCaps
    /\ max_triangles \in TriangleCaps
    /\ pc = "call"
    /\ meshlets = <<>>
    /\ outcome = "none"
    /\ stdout = <<>>

\* The whole body of generate_meshlets, lines 9-22.
generate_meshlets ==
    /\ pc = "call"
    /\ stdout' = Append(stdout, <<Len(vertices), Len(indices)>>)
    /\ meshlets' = Append(<<>>, dummy_meshlet)
    /\ outcome' = "returned"
    /\ pc' = "done"
    /\ UNCHANGED <<vertices, indices, max_vertices, max_triangles>>

Next == generate_meshlets

Spec == Init /\ [][Next]_vars

(***************************************************************************)
(* Vocabulary of the contract.                                             *)
(***************************************************************************)
Done == pc = "done"

Min(a, b) == IF a < b THEN a ELSE b

\* Index buffer of whole triangles, every index a row of the vertex buffer,
\* at least one triangle.
ValidInput ==
    /\ Len(indices) % 3 = 0
    /\ Len(indices) >= 3
    /\ \A i \in 1..Len(indices) : indices[i] >= 0 /\ indices[i] < Len(vertices)

ValidConfig == max_vertices >= 3 /\ max_triangles >= 1

\* The whole triangles of a flat index list, in order.
Triangles(idx) ==
    [k \in 1..(Len(idx) \div 3) |-> <<idx[3 * k - 2], idx[3 * k - 1], idx[3 * k]>>]

\* The global vertex index that entry k of a meshlet's vertex list stands for.
\* The list is the first rows of the vertex buffer (line 16), so entry k is
\* row k of the buffer, the vertex with global index k - 1.
VertexIndexList(m) == [k \in 1..Len(m.vertices) |-> k - 1]

\* A local index mapped back through the meshlet's vertex list; -1 when the
\* list has no such entry.
GlobalOf(m, l) ==
    IF l >= 0 /\ l < Len(m.vertices) THEN VertexIndexList(m)[l + 1] ELSE -1

\* The triangles of a meshlet in global vertex indices.
GlobalTriangles(m) ==
    LET ts == Triangles(m.indices)
    IN  [k \in 1..Len(ts) |->
            <<GlobalOf(m, ts[k][1]), GlobalOf(m, ts[k][2]), GlobalOf(m, ts[k][3])>>]

\* All triangles of all returned meshlets, in global vertex indices.
OutputTriangles == Flatten([j \in 1..Len(meshlets) |-> GlobalTriangles(meshlets[j])])

InputTriangles == Triangles(indices)

Range(s) == {s[i] : i \in 1..Len(s)}

Count(s, t) == Cardinality({i \in 1..Len(s) : s[i] = t})

\* Positions k of the input triangle list that no meshlet accounts for: the
\* j-th occurrence of a triangle is assigned when the output holds at least j
\* copies of it.
Unassigned ==
    {k \in 1..Len(InputTriangles) :
        Count(OutputTriangles, InputTriangles[k])
          < Cardinality({j \in 1..k : InputTriangles[j] = InputTriangles[k]})}

SquaredDistance(p, q) ==
    (p[1] - q[1]) * (p[1] - q[1]) + (p[2] - q[2]) * (p[2] - q[2])
      + (p[3] - q[3]) * (p[3] - q[3])

One == <<1, 1>>

(***************************************************************************)
(* C1  Coverage: for every valid input and valid configuration, the        *)
(* multiset of triangles of all returned meshlets, mapped back to global   *)
(* vertex indices, equals the multiset of input triangles, also when the   *)
(* input has more than max_triangles triangles.                            *)
(***************************************************************************)
Coverage ==
    (Done /\ ValidInput /\ ValidConfig) =>
        \A t \in Range(InputTriangles) \cup Range(OutputTriangles) :
            Count(OutputTriangles, t) = Count(InputTriangles, t)

(***************************************************************************)
(* C2  Cap respect: with max_vertices >= 3 and max_triangles >= 1 every    *)
(* returned meshlet has at most max_vertices vertex entries and at most    *)
(* 3 * max_triangles flattened index entries.                              *)
(***************************************************************************)
CapRespect ==
    (Done /\ max_vertices >= 3 /\ max_triangles >= 1) =>
        \A j \in 1..Len(meshlets) :
            /\ Len(meshlets[j].vertices) <= max_vertices
            /\ Len(meshlets[j].indices) <= 3 * max_triangles

\* A call whose two buffers are both longer than the caps has returned.
CapRespectWitness ==
    /\ Done /\ max_vertices >= 3 /\ max_triangles >= 1
    /\ Len(vertices) > max_vertices
    /\ Len(indices) > 3 * max_triangles
    /\ Len(meshlets) = 1

(***************************************************************************)
(* C3  Local-index validity: every index in a returned meshlet's triangle  *)
(* list is >= 0 and < the length of that meshlet's vertex list, for every  *)
(* valid input, meshes with more than max_vertices vertices included.      *)
(***************************************************************************)
LocalIndexValidity ==
    (Done /\ ValidInput /\ ValidConfig) =>
        \A j \in 1..Len(meshlets) :
            \A i \in 1..Len(meshlets[j].indices) :
                /\ meshlets[j].indices[i] >= 0
                /\ meshlets[j].indices[i] < Len(meshlets[j].vertices)

(***************************************************************************)
(* C4  Invalid configuration fails fast: a call with max_vertices < 3 or   *)
(* max_triangles < 1 ends in the InvalidConfig error and returns no        *)
(* meshlet.                                                                *)
(***************************************************************************)
InvalidConfigFailsFast ==
    (Done /\ ~ValidConfig) => (outcome = "InvalidConfig" /\ meshlets = <<>>)

(***************************************************************************)
(* C5  Malformed input is rejected: a call whose index buffer length is    *)
(* not a multiple of 3, or that holds an index >= the number of vertices,  *)
(* or that describes an empty mesh, ends in the InvalidInput error with no *)
(* meshlet set returned.                                                   *)
(***************************************************************************)
MalformedInputRejected ==
    (Done /\ ValidConfig /\ ~ValidInput) =>
        (outcome = "InvalidInput" /\ meshlets = <<>>)

(***************************************************************************)
(* C6  Single-triangle scenario: 3 vertices, the one triangle (0,1,2),     *)
(* max_vertices = 64, max_triangles = 126 give exactly one meshlet with    *)
(* vertices [0,1,2], triangles [0,1,2] and cone cutoff 1.0.                *)
(***************************************************************************)
SingleTriangleCall ==
    /\ Len(vertices) = 3
    /\ indices = <<0, 1, 2>>
    /\ max_vertices = DefaultMaxVertices
    /\ max_triangles = DefaultMaxTriangles

SingleTriangleScenario ==
    (Done /\ SingleTriangleCall) =>
        /\ Len(meshlets) = 1
        /\ VertexIndexList(meshlets[1]) = <<0, 1, 2>>
        /\ Triangles(meshlets[1].indices) = <<(<<0, 1, 2>>)>>
        /\ meshlets[1].cone[4] = One

(***************************************************************************)
(* C8  Bounding-sphere soundness: every returned meshlet carries a         *)
(* bounding sphere (center, radius), and every vertex the meshlet          *)
(* references lies within radius of center.                                *)
(***************************************************************************)
BoundingSphereSound ==
    Done =>
        \A j \in 1..Len(meshlets) :
            /\ "bounds" \in DOMAIN meshlets[j]
            /\ \A i \in 1..Len(meshlets[j].vertices) :
                   SquaredDistance(meshlets[j].vertices[i], meshlets[j].bounds.center)
                     <= meshlets[j].bounds.radius * meshlets[j].bounds.radius

(***************************************************************************)
(* C9  Termination with nothing left over: for every valid input the       *)
(* partitioning finishes, and when it has finished no input triangle is    *)
(* unassigned.                                                             *)
(***************************************************************************)
NothingLeftOver ==
    (Done /\ ValidInput /\ ValidConfig) => Unassigned = {}

(***************************************************************************)
(* C10  Stub behaviour, as claimed for every configuration: one meshlet,   *)
(* vertices the prefix of the vertex buffer of length                      *)
(* min(len(vertices), max_vertices), indices the prefix of the index       *)
(* buffer of length min(len(indices), 3 * max_triangles), cone             *)
(* [0, 1, 0, 0.5], input buffers unchanged.                                *)
(***************************************************************************)
StubResult ==
    /\ Len(meshlets) = 1
    /\ Len(meshlets[1].vertices) = Min(Len(vertices), max_vertices)
    /\ \A i \in 1..Len(meshlets[1].vertices) : meshlets[1].vertices[i] = vertices[i]
    /\ Len(meshlets[1].indices) = Min(Len(indices), 3 * max_triangles)
    /\ \A i \in 1..Len(meshlets[1].indices) : meshlets[1].indices[i] = indices[i]
    /\ meshlets[1].cone = <<0, 1, 0, <<1, 2>>>>

StubBehaviourEveryConfig ==
    /\ [](Done => StubResult)
    /\ [][vertices' = vertices /\ indices' = indices]_vars

(***************************************************************************)
(* C10 amended  The same for every configuration with max_vertices >= 0    *)
(* and max_triangles >= 0.                                                 *)
(***************************************************************************)
StubBehaviourNonNegativeConfig ==
    /\ []((Done /\ max_vertices >= 0 /\ max_triangles >= 0) => StubResult)
    /\ [][vertices' = vertices /\ indices' = indices]_vars

\* A call that cut both buffers short has returned.
StubBehaviourWitness ==
    /\ Done
    /\ max_vertices > 0 /\ max_vertices < Len(vertices)
    /\ max_triangles > 0 /\ 3 * max_triangles < Len(indices)
    /\ Len(meshlets[1].vertices) = max_vertices
    /\ Len(meshlets[1].indices) = 3 * max_triangles

====
